---- MODULE Spec2Model ----
(***************************************************************************)
(* Tide & Grind: the browser interaction layer (src/src/main.js) and the   *)
(* edge request filter (src/unnamed/part_000) as state machines.           *)
(*                                                                         *)
(* Three specifications share the module's variables:                      *)
(*   SpecFilter  the edge filter, one request after the other;             *)
(*   SpecNav     the mobile navigation drawer;                             *)
(*   Spec        the page controller: init(), the observers, the intro     *)
(*               timers, pointer and scroll input and the frame loop.      *)
(*                                                                         *)
(* Text is a sequence of one-character strings, so that endsWith,          *)
(* includes and toLowerCase are computed and not assumed.  Lengths are     *)
(* CSS pixels; a published render hint is an integer in the unit of its    *)
(* toFixed(n) (n decimals -> 10^-n), <<>> while the property is unset.     *)
(***************************************************************************)
EXTENDS Integers, Sequences, FiniteSets, TLC

VARIABLES
    \* ---- edge filter (part_000) ----
    request,          \* the request being answered: [path, ua]
    response,         \* what the handler returned for it
    \* ---- mobile navigation (main.js 368-421) ----
    ariaExpanded,     \* dom.navToggle's aria-expanded attribute = "true"
    navOpen,          \* dom.html carries the class nav-open
    bodyOverflow,     \* document.body.style.overflow
    activeElement,    \* document.activeElement
    focusTimers,      \* pending setTimeout(() => firstFocusable?.focus(), 100)
    lastScrollPosition, \* state.lastScrollPosition
    \* ---- page controller (main.js 17-341, 443-464) ----
    pc,               \* "loading" before init() has run, "ready" after
    prefersReducedMotion,   \* state.prefersReducedMotion
    isTouch,          \* state.isTouch
    layout,           \* the document's geometry (the markup and the window)
    isVisible,        \* [data-reveal] elements carrying the class is-visible
    observed,         \* targets the reveal observer still observes
    isActive,         \* [data-product] sections carrying the class is-active
    activeProduct,    \* state.activeProduct
    bodyActiveProduct,\* document.body.dataset.activeProduct
    introTimers,      \* pending intro setTimeout callbacks
    introShown,       \* intro targets carrying is-visible, in the order added
    htmlClasses,      \* is-loaded / intro-step-n on documentElement
    headerOpacity,    \* dom.header.style.opacity
    rafPending,       \* pending requestAnimationFrame(renderLoop) callbacks
    frames,           \* frames delivered so far
    scrollY,          \* window.scrollY
    currentScroll,    \* let currentScroll
    targetMouse,      \* <<targetMouseX, targetMouseY>>
    mouse,            \* <<mouseX, mouseY>>
    parallax,         \* per section: <<--p-hero-y, --p-media-y>>
    spotlight,        \* per section: <<--mx, --my>>
    glow,             \* <<--cx, --cy, --cv>> on dom.cursorGlow
    burr,             \* <<--burr-opacity, --burr-rotate>>
    pressureCurrent,  \* state.pressure.current
    pressureLevel,    \* <<--pressure-level>>
    scrollProgress,   \* --scroll-progress on document.body
    headerScrolled,   \* dom.header carries the class is-scrolled
    \* ---- history: the last event the host delivered ----
    lastEvent

filterVars == <<request, response>>
navVars == <<ariaExpanded, navOpen, bodyOverflow, activeElement, focusTimers,
             lastScrollPosition>>
observerVars == <<isVisible, observed, isActive, activeProduct,
                  bodyActiveProduct>>
introVars == <<introTimers, introShown, htmlClasses, headerOpacity>>
envVars == <<prefersReducedMotion, isTouch, layout>>
inputVars == <<scrollY, targetMouse>>
hintVars == <<currentScroll, mouse, parallax, glow, burr, pressureCurrent,
              pressureLevel, scrollProgress, headerScrolled>>
pageVars == <<pc, envVars, observerVars, introVars, rafPending, frames,
              inputVars, hintVars, spotlight>>
vars == <<filterVars, navVars, pageVars, lastEvent>>

(***************************************************************************)
(*                        EDGE REQUEST FILTER                              *)
(***************************************************************************)
UpperCase == <<"A","B","C","D","E","F","G","H","I","J","K","L","M",
               "N","O","P","Q","R","S","T","U","V","W","X","Y","Z">>
LowerCase == <<"a","b","c","d","e","f","g","h","i","j","k","l","m",
               "n","o","p","q","r","s","t","u","v","w","x","y","z">>

toLowerChar(c) ==
    IF \E i \in 1..26 : UpperCase[i] = c
    THEN LowerCase[CHOOSE i \in 1..26 : UpperCase[i] = c]
    ELSE c

\* String.prototype.toLowerCase
toLowerCase(s) == [i \in 1..Len(s) |-> toLowerChar(s[i])]

\* String.prototype.endsWith
endsWith(s, suffix) ==
    /\ Len(suffix) <= Len(s)
    /\ SubSeq(s, Len(s) - Len(suffix) + 1, Len(s)) = suffix

\* String.prototype.includes
includes(s, part) ==
    \E i \in 0..(Len(s) - Len(part)) : SubSeq(s, i + 1, i + Len(part)) = part

blockedExtensions ==
    { <<".","p","h","p">>, <<".","e","n","v">>, <<".","g","i","t">>,
      <<".","s","q","l">>, <<".","b","a","k">>,
      <<".","c","o","n","f","i","g">> }

blockedBots ==
    { <<"s","e","m","r","u","s","h","b","o","t">>,
      <<"a","h","r","e","f","s","b","o","t">>,
      <<"d","o","t","b","o","t">>,
      <<"m","j","1","2","b","o","t">>,
      <<"p","e","t","a","l","b","o","t">>,
      <<"b","y","t","e","s","p","i","d","e","r">>,
      <<"l","i","e","b","a","o","f","a","s","t">> }

\* request.headers.get("user-agent") of a request without the header
NoHeader == <<"(no user-agent header)">>

\* (request.headers.get("user-agent") || "")
headerOrEmpty(h) == IF h = NoHeader THEN <<>> ELSE h

Denied == [status |-> 403, body |-> "Access Denied"]
Forwarded == [status |-> 0, body |-> "context.next()"]
NoResponse == [status |-> 0, body |-> ""]

pathBlocked_CaseSensitive(pathname) ==
    \E ext \in blockedExtensions : endsWith(pathname, ext)

\* part_000 lines 3, 7-8
pathBlocked(pathname) ==
    \E ext \in blockedExtensions : endsWith(toLowerCase(pathname), ext)

\* part_000 lines 4, 13-23
botBlocked(h) ==
    \E bot \in blockedBots : includes(toLowerCase(headerOrEmpty(h)), bot)

\* a handler without the `|| ""` of line 4: lower-casing the null of an
\* absent header throws before either check runs
Thrown == [status |-> 500, body |-> "TypeError"]
edgeHandler_NullHeaderThrows(pathname, h) ==
    IF h = NoHeader THEN Thrown
    ELSE IF pathBlocked(pathname) THEN Denied
    ELSE IF botBlocked(h) THEN Denied
    ELSE Forwarded

\* part_000 lines 1-29: the handler's result for one request
edgeHandler(pathname, h) ==
    IF pathBlocked(pathname) THEN Denied
    ELSE IF botBlocked(h) THEN Denied
    ELSE Forwarded

\* ---- the requests the model sends ----
P_about      == <<"/","a","b","o","u","t">>
P_configEnv  == <<"/","c","o","n","f","i","g",".","e","n","v">>
P_dotEnv     == <<"/",".","e","n","v">>
P_dataSql    == <<"/","d","a","t","a",".","s","q","l">>
P_reportSQL  == <<"/","r","e","p","o","r","t",".","S","Q","L">>
P_indexPhp   == <<"/","i","n","d","e","x",".","P","h","p">>
P_webConfig  == <<"/","w","e","b",".","c","o","n","f","i","g">>
P_gitConfig  == <<"/",".","g","i","t","/","c","o","n","f","i","g">>
P_dotGit     == <<"/",".","g","i","t">>
P_envSlash   == <<"/",".","e","n","v","/">>
P_envx       == <<"/","a",".","e","n","v","x">>
P_bak        == <<"/","d","b",".","b","a","k">>
P_root       == <<"/">>
P_env        == <<"/","e","n","v">>

Paths == { P_about, P_configEnv, P_dotEnv, P_dataSql, P_reportSQL, P_indexPhp,
           P_webConfig, P_gitConfig, P_dotGit, P_envSlash, P_envx, P_bak,
           P_root, P_env }

UA_browser == <<"M","o","z","i","l","l","a","/","5",".","0"," ",
                "C","h","r","o","m","e">>
UA_ahrefs  == <<"M","o","z","i","l","l","a"," ","(","A","h","r","e","f","s",
                "B","o","t","/","7",")">>
UA_semrush == <<"S","e","m","r","u","s","h","B","o","t">>
UA_dotbot  == <<"d","o","t","b","o","t">>
UA_mj12    == <<"M","J","1","2","b","o","t","/","v","1">>
UA_petal   == <<"P","e","t","a","l","B","o","t">>
UA_byte    == <<"B","y","t","e","s","p","i","d","e","r">>
UA_liebao  == <<"L","i","e","B","a","o","F","a","s","t">>
UA_googlebot == <<"G","o","o","g","l","e","b","o","t">>
UA_empty   == <<>>

UserAgents == { UA_browser, UA_ahrefs, UA_semrush, UA_dotbot, UA_mj12,
                UA_petal, UA_byte, UA_liebao, UA_googlebot, UA_empty, NoHeader }

NoRequest == [path |-> <<>>, ua |-> NoHeader]

InitFilter ==
    /\ request = NoRequest
    /\ response = NoResponse

\* One invocation of the edge function.
HandleRequest ==
    \E p \in Paths, h \in UserAgents :
        /\ request' = [path |-> p, ua |-> h]
        /\ response' = edgeHandler(p, h)
        /\ lastEvent' = [kind |-> "request", targets |-> {}]

(***************************************************************************)
(*                        MOBILE NAVIGATION                                *)
(***************************************************************************)
\* Number of elements dom.navMenu.querySelectorAll("a[href], button") finds;
\* all of them are links of the menu.
NumNavItems == 3
\* Pending focus timers the model lets accumulate.
MaxPendingTimers == 2

Toggle == [el |-> "toggle", i |-> 0]       \* dom.navToggle
Outside == [el |-> "outside", i |-> 0]     \* any element outside toggle and menu
Item(k) == [el |-> "item", i |-> k]        \* focusableElements[k-1]
MenuItems == { Item(k) : k \in 1..NumNavItems }
Elements == {Toggle, Outside} \cup MenuItems

firstFocusable == Item(1)
lastFocusable == Item(NumNavItems)

\* An event: its kind and, for an observer callback, the targets its entries
\* report as intersecting.
Ev(kind) == [kind |-> kind, targets |-> {}]

InitNav ==
    /\ ariaExpanded = FALSE
    /\ navOpen = FALSE
    /\ bodyOverflow = ""
    /\ activeElement = Outside
    /\ focusTimers = 0
    /\ lastScrollPosition = 0

\* toggleMenu that forgets to restore the page scroll on closing
toggleMenu_KeepsLock ==
    /\ ariaExpanded' = ~ariaExpanded
    /\ navOpen' = ~navOpen
    /\ IF ~ariaExpanded
       THEN /\ lastScrollPosition' = scrollY
            /\ bodyOverflow' = "hidden"
            /\ focusTimers' = focusTimers + 1
            /\ UNCHANGED activeElement
       ELSE /\ activeElement' = Toggle
            /\ UNCHANGED <<bodyOverflow, lastScrollPosition, focusTimers>>

\* a toggleMenu that adds the nav-open class instead of toggling it
toggleMenu_AddsMarker ==
    /\ ariaExpanded' = ~ariaExpanded
    /\ navOpen' = TRUE
    /\ IF ~ariaExpanded
       THEN /\ lastScrollPosition' = scrollY
            /\ bodyOverflow' = "hidden"
            /\ focusTimers' = focusTimers + 1
            /\ UNCHANGED activeElement
       ELSE /\ bodyOverflow' = ""
            /\ activeElement' = Toggle
            /\ UNCHANGED <<lastScrollPosition, focusTimers>>

\* main.js 375-390.  activeElement is the focus when the handler starts.
toggleMenu ==
    /\ ariaExpanded' = ~ariaExpanded
    /\ navOpen' = ~navOpen
    /\ IF ~ariaExpanded
       THEN /\ lastScrollPosition' = scrollY
            /\ bodyOverflow' = "hidden"
            /\ focusTimers' = focusTimers + 1
            /\ UNCHANGED activeElement
       ELSE /\ bodyOverflow' = ""
            /\ activeElement' = Toggle
            /\ UNCHANGED <<lastScrollPosition, focusTimers>>

\* A handler that opens the menu schedules one more timer.
TimerRoom == ariaExpanded \/ focusTimers < MaxPendingTimers

\* main.js 392: click on the toggle control.
ClickToggle ==
    /\ pc = "ready"
    /\ TimerRoom
    /\ toggleMenu
    /\ lastEvent' = Ev("clickToggle")

\* main.js 396-400
linkHandler ==
    IF ariaExpanded THEN toggleMenu ELSE UNCHANGED navVars

\* main.js 395-401: click on a link of the menu.
ClickLink ==
    \E k \in 1..NumNavItems :
        /\ pc = "ready"
        /\ linkHandler
        /\ lastEvent' = Ev("clickLink")

\* The browser's default action for Tab / Shift+Tab on an element of the
\* menu: the next / previous element in tab order, which for the menu's ends
\* lies outside the menu.
defaultTab(el, shift) ==
    IF shift
    THEN IF el.i = 1 THEN Toggle ELSE Item(el.i - 1)
    ELSE IF el.i = NumNavItems THEN Outside ELSE Item(el.i + 1)

\* the keyboard trap without its wrap-around
tabTarget_NoWrap(el, shift) == defaultTab(el, shift)

\* main.js 405-416: where the focus is after a Tab keydown on el.
tabTarget(el, shift) ==
    IF shift
    THEN IF el = firstFocusable THEN lastFocusable ELSE defaultTab(el, shift)
    ELSE IF el = lastFocusable THEN firstFocusable ELSE defaultTab(el, shift)

\* main.js 404-416: keydown of Tab reaches dom.navMenu from an element in it.
KeyTab ==
    \E shift \in BOOLEAN :
        /\ pc = "ready"
        /\ activeElement \in MenuItems
        /\ activeElement' = tabTarget(activeElement, shift)
        /\ UNCHANGED <<ariaExpanded, navOpen, bodyOverflow, focusTimers,
                       lastScrollPosition>>
        /\ lastEvent' = Ev(IF shift THEN "keyShiftTab" ELSE "keyTab")

\* main.js 417-419
escapeHandler == toggleMenu

KeyEscape ==
    /\ pc = "ready"
    /\ activeElement \in MenuItems
    /\ TimerRoom
    /\ escapeHandler
    /\ lastEvent' = Ev("keyEscape")

\* main.js 404-420: any other key falls through both branches.
KeyOther ==
    /\ pc = "ready"
    /\ activeElement \in MenuItems
    /\ UNCHANGED navVars
    /\ lastEvent' = Ev("keyOther")

\* main.js 385: the timer set on opening fires.
FocusTimerFire ==
    /\ focusTimers > 0
    /\ focusTimers' = focusTimers - 1
    /\ activeElement' = firstFocusable
    /\ UNCHANGED <<ariaExpanded, navOpen, bodyOverflow, lastScrollPosition>>
    /\ lastEvent' = Ev("focusTimer")

\* The user moves the focus with the pointer or the keyboard (no handler).
FocusMove ==
    \E el \in Elements :
        /\ el # activeElement
        /\ activeElement' = el
        /\ UNCHANGED <<ariaExpanded, navOpen, bodyOverflow, focusTimers,
                       lastScrollPosition>>
        /\ lastEvent' = Ev("focusMove")

(***************************************************************************)
(*                        PAGE CONTROLLER                                  *)
(***************************************************************************)
\* ---- bounds of the model ----
MaxBatch == 2        \* entries in one observer callback
MaxFrames == 2       \* frames the model delivers

\* ---- the document ----
\* dom.productSections, by data-product name: the two names main.js looks up.
Sections == {"stonewave", "mariner-9"}
\* dom.revealElements
RevealEls == {"r1", "r2"}

\* Two documents: one four viewports tall, and one exactly as tall as the
\* viewport (nothing to scroll).  top is the section's offset in the document.
TallLayout ==
    [innerHeight |-> 600, innerWidth |-> 1000, scrollHeight |-> 3000,
     top    |-> [s \in Sections |->
                   IF s = "stonewave" THEN 600 ELSE 1200],
     height |-> [s \in Sections |-> 600]]
FitLayout ==
    [innerHeight |-> 600, innerWidth |-> 1000, scrollHeight |-> 600,
     top    |-> [s \in Sections |->
                   IF s = "stonewave" THEN 0 ELSE 300],
     height |-> [s \in Sections |-> 300]]
Layouts == {TallLayout, FitLayout}

\* Scroll offsets the host reports: rubber-band overscroll on both sides.
ScrollOffsets == {-100, 0, 900, 2500}
\* Pointer positions (clientX, clientY)
PointerPositions == { <<0, 0>>, <<400, 300>> }

\* section.getBoundingClientRect() at scroll offset y
rectTop(s, y) == layout.top[s] - y
rectHeight(s) == layout.height[s]
rectBottom(s, y) == rectTop(s, y) + rectHeight(s)

\* ---- numbers ----
Min(a, b) == IF a <= b THEN a ELSE b
Max(a, b) == IF a >= b THEN a ELSE b
Abs(a) == IF a >= 0 THEN a ELSE -a

\* a / b for b > 0, rounded to the nearest integer, halves away from zero
\* (Number.prototype.toFixed on the scaled value)
Round(a, b) ==
    IF a >= 0 THEN (2 * a + b) \div (2 * b) ELSE -((2 * (-a) + b) \div (2 * b))

\* main.js 64
clamp(num, min, max) == Min(Max(num, min), max)

\* main.js 63 with factor = fnum / fden, on fixed-point values
lerp(start, end, fnum, fden) == start + Round((end - start) * fnum, fden)

\* IEEE division of integers: a finite quotient n/d with d > 0, or an
\* infinity, or NaN for 0/0.
Quot(a, b) ==
    IF b > 0 THEN [k |-> "num", n |-> a, d |-> b]
    ELSE IF b < 0 THEN [k |-> "num", n |-> -a, d |-> -b]
    ELSE IF a > 0 THEN [k |-> "inf", n |-> 1, d |-> 1]
    ELSE IF a < 0 THEN [k |-> "-inf", n |-> -1, d |-> 1]
    ELSE [k |-> "nan", n |-> 0, d |-> 1]

\* Math.min(Math.max(q, 0), 1) of such a quotient; NaN stays NaN.
clamp01(q) ==
    CASE q.k = "nan" -> q
      [] q.k = "inf" -> [k |-> "num", n |-> 1, d |-> 1]
      [] q.k = "-inf" -> [k |-> "num", n |-> 0, d |-> 1]
      [] OTHER -> IF q.n < 0 THEN [k |-> "num", n |-> 0, d |-> 1]
                  ELSE IF q.n > q.d THEN [k |-> "num", n |-> 1, d |-> 1]
                  ELSE q

\* q.toFixed(digits) as a hint: the number in units of 1/scale, or "NaN"
toFixedHint(q, scale) ==
    IF q.k = "num" THEN [k |-> "num", v |-> Round(q.n * scale, q.d)]
    ELSE [k |-> "NaN", v |-> 0]

Unset == <<>>
UnsetHint == [k |-> "unset", v |-> 0]

\* ---- the frame loop's steps.  y is window.scrollY when the frame runs ----

\* the offsets without the clamps of lines 227 and 233
parallaxOf_Unclamped(s, y) ==
    LET dist2 == 2 * rectTop(s, y) + rectHeight(s) - layout.innerHeight
    IN  << dist2 * 4, dist2 * 6 >>

\* main.js 224-233: <<yHero, yMedia>> in 1/100 px.  dist2 is twice dist.
parallaxOf(s, y) ==
    LET dist2 == 2 * rectTop(s, y) + rectHeight(s) - layout.innerHeight
    IN  << clamp(dist2 * 4, -5000, 5000), clamp(dist2 * 6, -8000, 8000) >>

\* main.js 217-239
updateParallax(y) ==
    parallax' = IF prefersReducedMotion \/ isTouch THEN parallax
                ELSE [s \in Sections |->
                        IF s \in isActive THEN parallaxOf(s, y)
                        ELSE parallax[s]]

\* the glow follower without the touch check
updateCursorGlow_IgnoresTouch ==
    IF prefersReducedMotion
    THEN UNCHANGED <<mouse, glow>>
    ELSE LET mx == lerp(mouse[1], 10 * targetMouse[1], 15, 100)
             my == lerp(mouse[2], 10 * targetMouse[2], 15, 100)
             v  == Min(Abs(10 * targetMouse[1] - mx)
                       + Abs(10 * targetMouse[2] - my), 500)
         IN  /\ mouse' = <<mx, my>>
             /\ glow' = <<mx, my, v>>

\* main.js 241-256: mouseX, mouseY and the hints in 1/10 px
updateCursorGlow ==
    IF isTouch \/ prefersReducedMotion
    THEN UNCHANGED <<mouse, glow>>
    ELSE LET mx == lerp(mouse[1], 10 * targetMouse[1], 15, 100)
             my == lerp(mouse[2], 10 * targetMouse[2], 15, 100)
             v  == Min(Abs(10 * targetMouse[1] - mx)
                       + Abs(10 * targetMouse[2] - my), 500)
         IN  /\ mouse' = <<mx, my>>
             /\ glow' = <<mx, my, v>>

\* main.js 285, 315: rect.top < height && rect.bottom > 0
inViewport(s, y) ==
    /\ rectTop(s, y) < layout.innerHeight
    /\ rectBottom(s, y) > 0

\* main.js 287, 316: progress = 1 - rect.bottom / (rect.height + height),
\* as the quotient (num / den) with den > 0
progressNum(s, y) == rectHeight(s) + layout.innerHeight - rectBottom(s, y)
progressDen(s) == rectHeight(s) + layout.innerHeight

\* Math.sin(x * Math.PI) in 1/1000 for x = x100 / 100 in [0, 1], by
\* Bhaskara's rational approximation 16x(1-x) / (5 - 4x(1-x)) (error < 0.002)
sinPi(x100) ==
    LET q == x100 * (100 - x100)
    IN  Round(16 * q * 1000, 50000 - 4 * q)

\* main.js 287-297: <<opacity in 1/1000, rotation in 1/10 deg>>
burrOf(s, y) ==
    LET num == progressNum(s, y)
        den == progressDen(s)
    IN  << sinPi(clamp(Round(100 * num, den), 0, 100)),
           Round(3600 * num, den) >>

\* the burr effect without any check
updateBurrGeometry_NoCheck(y) ==
    burr' = IF inViewport("stonewave", y) THEN burrOf("stonewave", y)
            ELSE burr

\* main.js 274-299
updateBurrGeometry(y) ==
    burr' = IF prefersReducedMotion THEN burr
            ELSE IF inViewport("stonewave", y) THEN burrOf("stonewave", y)
            ELSE burr

\* main.js 311-318: the target in 1/10000
pressureTarget(y) ==
    IF inViewport("mariner-9", y)
    THEN clamp(Round(10000 * progressNum("mariner-9", y),
                     progressDen("mariner-9")), 0, 10000)
    ELSE 0

\* a gauge that walks toward the target by a fixed step of 0.03
updatePressureGauge_FixedStep(y) ==
    IF prefersReducedMotion
    THEN UNCHANGED <<pressureCurrent, pressureLevel>>
    ELSE LET t == pressureTarget(y)
             next == IF t > pressureCurrent THEN pressureCurrent + 300
                     ELSE IF t < pressureCurrent THEN pressureCurrent - 300
                     ELSE pressureCurrent
         IN  /\ pressureCurrent' = next
             /\ pressureLevel' = <<next>>

\* a gauge that resets as soon as the section leaves the viewport
updatePressureGauge_SnapsToZero(y) ==
    IF prefersReducedMotion
    THEN UNCHANGED <<pressureCurrent, pressureLevel>>
    ELSE LET next == IF inViewport("mariner-9", y)
                     THEN lerp(pressureCurrent, pressureTarget(y), 3, 100)
                     ELSE 0
         IN  /\ pressureCurrent' = next
             /\ pressureLevel' = <<next>>

\* main.js 301-329: state.pressure.current and the hint in 1/10000
updatePressureGauge(y) ==
    IF prefersReducedMotion
    THEN UNCHANGED <<pressureCurrent, pressureLevel>>
    ELSE LET next == lerp(pressureCurrent, pressureTarget(y), 3, 100)
         IN  /\ pressureCurrent' = next
             /\ pressureLevel' = <<next>>

\* main.js 258-272; y is currentScroll
updateScrollProgress(y) ==
    LET limit == layout.scrollHeight - layout.innerHeight
        progress == clamp01(Quot(y, limit))
    IN  /\ scrollProgress' = toFixedHint(progress, 10000)
        /\ headerScrolled' = (y > 100)

\* a loop whose tick does not ask for the next frame
renderLoop_NoReschedule ==
    /\ pc = "ready"
    /\ rafPending > 0
    /\ currentScroll' = scrollY
    /\ updateParallax(scrollY)
    /\ updateCursorGlow
    /\ updateBurrGeometry(scrollY)
    /\ updatePressureGauge(scrollY)
    /\ updateScrollProgress(scrollY)
    /\ rafPending' = rafPending - 1
    /\ UNCHANGED <<pc, envVars, observerVars, introVars, inputVars, spotlight>>

\* main.js 331-341: one frame.  The callback that runs is consumed and
\* requestAnimationFrame(renderLoop) adds one.
renderLoop ==
    /\ pc = "ready"
    /\ rafPending > 0
    /\ currentScroll' = scrollY
    /\ updateParallax(scrollY)
    /\ updateCursorGlow
    /\ updateBurrGeometry(scrollY)
    /\ updatePressureGauge(scrollY)
    /\ updateScrollProgress(scrollY)
    /\ rafPending' = (rafPending - 1) + 1
    /\ UNCHANGED <<pc, envVars, observerVars, introVars, inputVars, spotlight>>

\* The host delivers a frame.
Frame ==
    /\ frames < MaxFrames
    /\ frames' = frames + 1
    /\ renderLoop
    /\ UNCHANGED <<filterVars, navVars>>
    /\ lastEvent' = Ev("frame")

\* The host keeps delivering frames for as long as the page lives; here
\* frames holds the parity of the number of frames delivered.
Tick ==
    /\ frames' = (frames + 1) % 2
    /\ renderLoop
    /\ UNCHANGED <<filterVars, navVars>>
    /\ lastEvent' = Ev("frame")

\* ---- input sampling ----

\* main.js 198-215
onMouseMove(x, y) ==
    /\ targetMouse' = <<x, y>>
    /\ spotlight' =
         IF ~isTouch /\ ~prefersReducedMotion
         THEN [s \in Sections |->
                 IF inViewport(s, scrollY)
                 THEN << Round(1000 * x, layout.innerWidth),
                         Round(1000 * (y - rectTop(s, scrollY)), rectHeight(s)) >>
                 ELSE spotlight[s]]
         ELSE spotlight

\* main.js 453: a mousemove event reaches the window listener.
MouseMove ==
    \E p \in PointerPositions :
        /\ pc = "ready"
        /\ onMouseMove(p[1], p[2])
        /\ UNCHANGED <<pc, envVars, observerVars, introVars, rafPending, frames,
                       scrollY, hintVars>>
        /\ UNCHANGED <<filterVars, navVars>>
        /\ lastEvent' = Ev("mousemove")

\* The user scrolls: window.scrollY changes, no handler runs.
Scroll ==
    \E y \in ScrollOffsets :
        /\ y # scrollY
        /\ scrollY' = y
        /\ UNCHANGED <<pc, envVars, observerVars, introVars, rafPending, frames,
                       targetMouse, hintVars, spotlight>>
        /\ UNCHANGED <<filterVars, navVars>>
        /\ lastEvent' = Ev("scroll")

\* ---- observers ----
\* An observer callback receives a sequence of entries [target, isIntersecting].
Entry(t, b) == [target |-> t, isIntersecting |-> b]
Batches(targets) ==
    UNION { [1..n -> { Entry(t, b) : t \in targets, b \in BOOLEAN }]
            : n \in 1..MaxBatch }
Intersecting(entries) ==
    { entries[i].target : i \in { j \in 1..Len(entries) : entries[j].isIntersecting } }

\* main.js 104-115 folded over the entries: <<is-visible set, observed set>>
RECURSIVE revealEntries(_, _, _)
revealEntries(entries, vis, obs) ==
    IF entries = <<>> THEN <<vis, obs>>
    ELSE LET e == Head(entries)
         IN  IF e.isIntersecting
             THEN revealEntries(Tail(entries), vis \cup {e.target},
                                obs \ {e.target})
             ELSE revealEntries(Tail(entries), vis, obs)

\* the reveal callback that also hides an element that left the viewport
RECURSIVE revealEntries_Unreveals(_, _, _)
revealEntries_Unreveals(entries, vis, obs) ==
    IF entries = <<>> THEN <<vis, obs>>
    ELSE LET e == Head(entries)
         IN  IF e.isIntersecting
             THEN revealEntries_Unreveals(Tail(entries), vis \cup {e.target}, obs)
             ELSE revealEntries_Unreveals(Tail(entries), vis \ {e.target}, obs)

revealCallback_Unreveals(entries) ==
    revealEntries_Unreveals(entries, isVisible, observed)

\* main.js 102-116: the reveal observer's callback
revealCallback(entries) == revealEntries(entries, isVisible, observed)

\* The host reports intersection changes of targets the observer observes.
RevealObserved ==
    \E entries \in Batches(observed) :
        /\ pc = "ready"
        /\ LET r == revealCallback(entries)
           IN  /\ isVisible' = r[1]
               /\ observed' = r[2]
        /\ UNCHANGED <<pc, envVars, isActive, activeProduct, bodyActiveProduct,
                       introVars, rafPending, frames, inputVars, hintVars,
                       spotlight>>
        /\ UNCHANGED <<filterVars, navVars>>
        /\ lastEvent' = [kind |-> "reveal", targets |-> Intersecting(entries)]

\* main.js 130-158 folded over the entries:
\* <<is-active set, state.activeProduct, body.dataset.activeProduct>>
RECURSIVE productEntries(_, _, _, _)
productEntries(entries, act, name, meta) ==
    IF entries = <<>> THEN <<act, name, meta>>
    ELSE LET e == Head(entries)
         IN  IF e.isIntersecting
             THEN IF name # e.target
                  THEN productEntries(Tail(entries), {e.target}, e.target,
                                      e.target)
                  ELSE productEntries(Tail(entries), {e.target}, name, meta)
             ELSE productEntries(Tail(entries), act, name, meta)

\* the product callback without the removal of the siblings' marker
RECURSIVE productEntries_KeepsSiblings(_, _, _, _)
productEntries_KeepsSiblings(entries, act, name, meta) ==
    IF entries = <<>> THEN <<act, name, meta>>
    ELSE LET e == Head(entries)
         IN  IF e.isIntersecting
             THEN productEntries_KeepsSiblings(Tail(entries),
                      act \cup {e.target}, e.target, e.target)
             ELSE productEntries_KeepsSiblings(Tail(entries), act, name, meta)

productCallback_KeepsSiblings(entries) ==
    productEntries_KeepsSiblings(entries, isActive, activeProduct,
                                 bodyActiveProduct)

\* the product callback recording the identifier only while none is recorded
RECURSIVE productEntries_FirstNameOnly(_, _, _, _)
productEntries_FirstNameOnly(entries, act, name, meta) ==
    IF entries = <<>> THEN <<act, name, meta>>
    ELSE LET e == Head(entries)
         IN  IF e.isIntersecting
             THEN IF name = "null"
                  THEN productEntries_FirstNameOnly(Tail(entries), {e.target},
                                                    e.target, e.target)
                  ELSE productEntries_FirstNameOnly(Tail(entries), {e.target},
                                                    name, meta)
             ELSE productEntries_FirstNameOnly(Tail(entries), act, name, meta)

productCallback_FirstNameOnly(entries) ==
    productEntries_FirstNameOnly(entries, isActive, activeProduct,
                                 bodyActiveProduct)

\* main.js 128-159: the product observer's callback
productCallback(entries) ==
    productEntries(entries, isActive, activeProduct, bodyActiveProduct)

ProductObserved ==
    \E entries \in Batches(Sections) :
        /\ pc = "ready"
        /\ LET r == productCallback(entries)
           IN  /\ isActive' = r[1]
               /\ activeProduct' = r[2]
               /\ bodyActiveProduct' = r[3]
        /\ UNCHANGED <<pc, envVars, isVisible, observed, introVars, rafPending,
                       frames, inputVars, hintVars, spotlight>>
        /\ UNCHANGED <<filterVars, navVars>>
        /\ lastEvent' = [kind |-> "product", targets |-> Intersecting(entries)]

\* ---- page-load intro ----
\* CONFIG.timings, in ms
introStart == 700
introText == 1000
introScroll == 1400
IntroSteps == {"header", "hero", "scrollCue"}
\* timings whose hero delay is shorter than the header delay
introDelay_HeroFirst(step) ==
    CASE step = "header" -> introStart
      [] step = "hero" -> 500
      [] OTHER -> introScroll

introDelay(step) ==
    CASE step = "header" -> introStart
      [] step = "hero" -> introText
      [] OTHER -> introScroll

\* an initIntro that sets the timers whatever the preference
initIntro_AlwaysTimers ==
    /\ introTimers' = IntroSteps
    /\ IF prefersReducedMotion
       THEN /\ htmlClasses' = htmlClasses \cup {"is-loaded"}
            /\ headerOpacity' = "1"
       ELSE UNCHANGED <<htmlClasses, headerOpacity>>
    /\ UNCHANGED introShown

\* main.js 67-92
initIntro ==
    IF prefersReducedMotion
    THEN /\ htmlClasses' = htmlClasses \cup {"is-loaded"}
         /\ headerOpacity' = "1"
         /\ UNCHANGED <<introTimers, introShown>>
    ELSE /\ introTimers' = IntroSteps
         /\ UNCHANGED <<htmlClasses, headerOpacity, introShown>>

\* main.js 76-91: a timer's callback; timers fire in the order of their delays.
IntroTimer ==
    \E step \in introTimers :
        /\ \A other \in introTimers : introDelay(step) <= introDelay(other)
        /\ introTimers' = introTimers \ {step}
        /\ introShown' = IF step \in { introShown[i] : i \in 1..Len(introShown) }
                         THEN introShown
                         ELSE Append(introShown, step)
        /\ htmlClasses' = CASE step = "header" -> htmlClasses \cup {"intro-step-1"}
                            [] step = "hero" -> htmlClasses \cup {"intro-step-2"}
                            [] OTHER -> htmlClasses
        /\ UNCHANGED <<pc, envVars, observerVars, headerOpacity, rafPending,
                       frames, inputVars, hintVars, spotlight>>
        /\ UNCHANGED <<filterVars, navVars>>
        /\ lastEvent' = Ev("introTimer")

\* The stylesheet (styles.css, imported at main.js 1) decides what the
\* classes show: a piece of intro content is shown once its stage has added
\* is-visible, and all of it is shown on a page marked is-loaded.
introContentShown(step) ==
    \/ "is-loaded" \in htmlClasses
    \/ step \in { introShown[i] : i \in 1..Len(introShown) }

\* main.js 95-124
initScrollReveal ==
    IF prefersReducedMotion
    THEN /\ isVisible' = isVisible \cup RevealEls
         /\ UNCHANGED observed
    ELSE /\ observed' = RevealEls
         /\ UNCHANGED isVisible

\* main.js 443-457: init(), run once when the DOM is ready.
init ==
    /\ pc = "loading"
    /\ pc' = "ready"
    /\ initIntro
    /\ initScrollReveal
    /\ rafPending' = rafPending + 1
    /\ UNCHANGED <<envVars, isActive, activeProduct, bodyActiveProduct, frames,
                   inputVars, hintVars, spotlight>>
    /\ UNCHANGED <<filterVars, navVars>>
    /\ lastEvent' = Ev("init")

\* ---- the state when the script has been evaluated (main.js 35-60, 189-196)
InitPage ==
    /\ pc = "loading"
    /\ prefersReducedMotion \in BOOLEAN
    /\ isTouch \in BOOLEAN
    /\ layout \in Layouts
    /\ isVisible = {}
    /\ observed = {}
    /\ isActive = {}
    /\ activeProduct = "null"
    /\ bodyActiveProduct = ""
    /\ introTimers = {}
    /\ introShown = <<>>
    /\ htmlClasses = {}
    /\ headerOpacity = ""
    /\ rafPending = 0
    /\ frames = 0
    /\ scrollY = 0
    /\ currentScroll = 0
    /\ targetMouse = <<0, 0>>
    /\ mouse = <<0, 0>>
    /\ parallax = [s \in Sections |-> Unset]
    /\ spotlight = [s \in Sections |-> Unset]
    /\ glow = Unset
    /\ burr = Unset
    /\ pressureCurrent = 0
    /\ pressureLevel = Unset
    /\ scrollProgress = UnsetHint
    /\ headerScrolled = FALSE

Init ==
    /\ InitFilter
    /\ InitNav
    /\ InitPage
    /\ lastEvent = Ev("none")

\* ---- the whole program: every handler of the page and the edge filter ----
NavStep(A) == A /\ UNCHANGED <<filterVars, pageVars>>
FilterStep == HandleRequest /\ UNCHANGED <<navVars, pageVars>>

Next ==
    \/ init
    \/ IntroTimer
    \/ RevealObserved
    \/ ProductObserved
    \/ MouseMove
    \/ Scroll
    \/ Frame
    \/ NavStep(ClickToggle)
    \/ NavStep(ClickLink)
    \/ NavStep(KeyTab)
    \/ NavStep(KeyEscape)
    \/ NavStep(KeyOther)
    \/ NavStep(FocusTimerFire)
    \/ NavStep(FocusMove)
    \/ FilterStep

Spec == Init /\ [][Next]_vars

(***************************************************************************)
(* The components write disjoint variables (every action above leaves the  *)
(* other components' variables UNCHANGED), so each property is checked     *)
(* under the specification of the handlers that can affect it.             *)
(***************************************************************************)
\* ---- section observer, scrolling and the frame loop ----
NextSections ==
    \/ init
    \/ ProductObserved
    \/ Scroll
    \/ Frame

SpecSections == Init /\ [][NextSections]_vars

\* ---- reveal observer with pointer input, scrolling and the frame loop ----
NextReveal ==
    \/ init
    \/ RevealObserved
    \/ MouseMove
    \/ Scroll
    \/ Frame

SpecReveal == Init /\ [][NextReveal]_vars

\* ---- a page whose user asks for reduced motion; the reveal observer is
\* never attached there and no intro timer is set ----
InitReduced == Init /\ prefersReducedMotion

NextReduced ==
    \/ init
    \/ ProductObserved
    \/ MouseMove
    \/ Scroll
    \/ Frame

SpecReduced == InitReduced /\ [][NextReduced]_vars

\* ---- a touch device without the reduced-motion preference ----
InitTouch == Init /\ isTouch /\ ~prefersReducedMotion

NextTouch ==
    \/ init
    \/ ProductObserved
    \/ MouseMove
    \/ Scroll
    \/ Frame

SpecTouch == InitTouch /\ [][NextTouch]_vars

\* ---- the pressure gauge over an unbounded run of frames ----
NextGauge ==
    \/ init
    \/ Scroll
    \/ Tick

SpecGauge == InitTouch /\ [][NextGauge]_vars

\* ---- the page-load intro with scrolling and the frame loop ----
NextIntro ==
    \/ init
    \/ IntroTimer
    \/ Scroll
    \/ Frame

SpecIntro == Init /\ [][NextIntro]_vars

\* ---- the motion loop under a host that runs init() once the DOM is
\* ready and keeps delivering animation frames (on a touch device, where
\* pointer moves do not feed the glow) ----
NextLoop ==
    \/ init
    \/ MouseMove
    \/ Tick

SpecLoop == InitTouch /\ [][NextLoop]_vars /\ WF_vars(init) /\ WF_vars(Tick)

\* ---- the navigation drawer: init() attaches its handlers ----
NextNav ==
    \/ init
    \/ NavStep(ClickToggle)
    \/ NavStep(ClickLink)
    \/ NavStep(KeyTab)
    \/ NavStep(KeyEscape)
    \/ NavStep(KeyOther)
    \/ NavStep(FocusTimerFire)
    \/ NavStep(FocusMove)

SpecNav == Init /\ [][NextNav]_vars

\* ---- the edge filter, deployed apart from the page ----
InitEdge == Init /\ ~prefersReducedMotion /\ ~isTouch /\ layout = TallLayout

SpecFilter == InitEdge /\ [][FilterStep]_vars

(***************************************************************************)
(*                            PROPERTIES                                   *)
(***************************************************************************)
isFrame(e) == e.kind = "frame"

\* ---- edge filter (SpecFilter) ----
suffixMatch == \E ext \in blockedExtensions :
                   endsWith(toLowerCase(request.path), ext)
botMatch == \E bot \in blockedBots :
                includes(toLowerCase(headerOrEmpty(request.ua)), bot)

\* C1: a request is denied (403, "Access Denied") if and only if its
\* lower-cased path ends with a blocked suffix or its lower-cased user-agent
\* contains a blocked bot name; every other request is forwarded.  /config.env,
\* /.env, /data.sql and /report.SQL are denied, /about from AhrefsBot is
\* denied and /about from a browser is forwarded.
C1_DenyIffBlocked ==
    response # NoResponse =>
        /\ response \in {Denied, Forwarded}
        /\ (response = Denied) <=> (suffixMatch \/ botMatch)
        /\ (response = Forwarded) <=> ~(suffixMatch \/ botMatch)
        /\ request.path \in {P_configEnv, P_dotEnv, P_dataSql, P_reportSQL}
              => response = Denied
        /\ (request.path = P_about /\ request.ua = UA_ahrefs)
              => response = Denied
        /\ (request.path = P_about /\ request.ua = UA_browser)
              => response = Forwarded

\* the mixed-case path of the claim, sent by a browser, has been denied
C1_Witness ==
    /\ request.path = P_reportSQL
    /\ request.ua = UA_browser
    /\ response = Denied

\* ---- section observer (SpecSections) ----
\* C2: at all times at most one content section carries the active marker,
\* also after a callback whose entries report several sections intersecting.
C2_AtMostOneActive == Cardinality(isActive) <= 1

\* a single callback reported two sections as intersecting
C2_Witness ==
    /\ lastEvent.kind = "product"
    /\ Cardinality(lastEvent.targets) >= 2
    /\ Cardinality(isActive) = 1

\* ---- reveal observer (SpecReveal) ----
\* C3: an element that carries is-visible carries it in every later state,
\* whatever callback, frame or input event follows; every element a reveal
\* callback reports as intersecting is visible after that callback and is no
\* longer observed, so that no later callback has an entry for it.
C3_RevealIsPermanent ==
    [][ /\ isVisible \subseteq isVisible'
        /\ lastEvent'.kind = "reveal" =>
              /\ lastEvent'.targets \subseteq isVisible'
              /\ lastEvent'.targets \cap observed' = {}
        /\ isVisible' \cap observed' = {} ]_vars

\* a frame ran after one element was revealed while the other is still observed
C3_Witness ==
    /\ ~prefersReducedMotion
    /\ isFrame(lastEvent)
    /\ isVisible # {}
    /\ observed # {}
    /\ targetMouse # <<0, 0>>

\* ---- reduced motion (SpecReduced) ----
\* C4: with the reduced-motion preference, init() marks every reveal target
\* visible, and after init() no frame and no input event changes a parallax,
\* glow, pressure or rotation/opacity hint.
C4_ReducedMotionIsStill ==
    [][ prefersReducedMotion =>
          /\ lastEvent'.kind = "init" => isVisible' = RevealEls
          /\ pc = "ready" =>
                /\ isVisible' = RevealEls
                /\ UNCHANGED <<parallax, glow, mouse, burr, pressureCurrent,
                               pressureLevel>> ]_vars

\* a frame ran with a section active and in the viewport and the pointer moved
C4_Witness ==
    /\ prefersReducedMotion
    /\ isFrame(lastEvent)
    /\ layout = TallLayout
    /\ currentScroll = 900
    /\ isActive # {}
    /\ targetMouse # <<0, 0>>
    /\ isVisible = RevealEls
    /\ burr = Unset

\* ---- touch devices (SpecTouch) ----
\* C5 as stated: on a touch-only device every frame leaves the parallax, glow,
\* rotation/opacity and pressure hints unchanged.
C5_TouchSkipsAllMotion ==
    [][ (isTouch /\ ~prefersReducedMotion /\ isFrame(lastEvent')) =>
          UNCHANGED <<parallax, glow, burr, pressureLevel>> ]_vars

\* C5 as amended: on a touch-only device every frame leaves the parallax and
\* glow hints unchanged; it still publishes the pressure level, publishes the
\* rotation/opacity hints while the stonewave section is in the viewport, and
\* updates the scroll-progress hint and the compact-header flag.
C5_TouchSkipsPointerMotion ==
    [][ (isTouch /\ ~prefersReducedMotion /\ isFrame(lastEvent')) =>
          /\ UNCHANGED <<parallax, glow, mouse>>
          /\ pressureLevel' = <<pressureCurrent'>>
          /\ pressureCurrent' = lerp(pressureCurrent, pressureTarget(scrollY), 3, 100)
          /\ inViewport("stonewave", scrollY) => burr' = burrOf("stonewave", scrollY)
          /\ scrollProgress'.k # "unset"
          /\ headerScrolled' = (scrollY > 100) ]_vars

\* on a touch device a frame has moved the pressure and the burr while a
\* section is active and the pointer target has moved
C5_Witness ==
    /\ isTouch /\ ~prefersReducedMotion
    /\ isFrame(lastEvent)
    /\ isActive # {}
    /\ targetMouse # <<0, 0>>
    /\ pressureCurrent > 0
    /\ burr # Unset
    /\ glow = Unset
    /\ \A s \in Sections : parallax[s] = Unset

\* ---- mobile navigation (SpecNav) ----
menuClosed == ~ariaExpanded
\* C6: activating the toggle while the menu is closed opens it (expanded
\* indicator true, nav-open marker, page scroll locked); Escape in the open menu
\* sets the expanded indicator to false and restores the page scroll.
C6_ToggleOpensEscapeCloses ==
    [][ /\ (lastEvent'.kind = "clickToggle" /\ menuClosed) =>
              (ariaExpanded' /\ navOpen' /\ bodyOverflow' = "hidden")
        /\ (lastEvent'.kind = "keyEscape" /\ ariaExpanded) =>
              (~ariaExpanded' /\ ~navOpen' /\ bodyOverflow' = "") ]_vars

\* Escape has just closed the menu (Escape on a closed menu leaves it expanded)
C6_Witness ==
    /\ lastEvent.kind = "keyEscape"
    /\ ~ariaExpanded
    /\ bodyOverflow = ""

\* C7: only the toggle control moves the menu from closed to open: a link
\* activation or an Escape key press on the closed menu leaves it closed.
C7_OnlyToggleOpens ==
    [][ /\ (menuClosed /\ ariaExpanded') => lastEvent'.kind = "clickToggle"
        /\ (menuClosed /\ lastEvent'.kind \in {"clickLink", "keyEscape"}) =>
              (~ariaExpanded' /\ ~navOpen' /\ bodyOverflow' = "") ]_vars

\* C8: every transition from open to closed restores the page scroll and puts
\* the focus on the toggle, and the focus timer set on opening does not move
\* the focus into the menu once the menu is closed.
C8_CloseReturnsFocus ==
    [][ /\ (ariaExpanded /\ ~ariaExpanded') =>
              (bodyOverflow' = "" /\ activeElement' = Toggle)
        /\ (lastEvent'.kind = "focusTimer" /\ menuClosed) =>
              activeElement' \notin MenuItems ]_vars

\* C9: while the menu is open, Tab and Shift+Tab on an element of the menu keep
\* the focus in the menu: Tab on the last goes to the first, Shift+Tab on the
\* first goes to the last, any other goes where the browser's default goes.
C9_FocusTrapped ==
    [][ (ariaExpanded /\ lastEvent'.kind \in {"keyTab", "keyShiftTab"}) =>
          LET shift == lastEvent'.kind = "keyShiftTab"
          IN  /\ activeElement' \in MenuItems
              /\ (~shift /\ activeElement = lastFocusable) =>
                    activeElement' = firstFocusable
              /\ (shift /\ activeElement = firstFocusable) =>
                    activeElement' = lastFocusable
              /\ (~shift /\ activeElement # lastFocusable) =>
                    activeElement' = defaultTab(activeElement, FALSE)
              /\ (shift /\ activeElement # firstFocusable) =>
                    activeElement' = defaultTab(activeElement, TRUE) ]_vars

\* Tab in the open menu has wrapped from the last element to the first
C9_Witness ==
    /\ ariaExpanded
    /\ lastEvent.kind = "keyTab"
    /\ activeElement = firstFocusable

\* ---- scroll progress (SpecSections) ----
\* C10: after every frame the published scroll-progress hint is a number
\* within [0, 1] (0 .. 10000 in 1/10000), whatever the scroll offset.
C10_ProgressInUnitInterval ==
    scrollProgress # UnsetHint =>
        /\ scrollProgress.k = "num"
        /\ scrollProgress.v >= 0
        /\ scrollProgress.v <= 10000

\* ---- pressure gauge ----
\* The target the tick now being taken blends toward: renderLoop samples
\* window.scrollY, which a tick leaves unchanged.
tickTarget == pressureTarget(scrollY)

\* C11: on every tick the pressure scalar moves toward the target of that
\* tick and never past it: the distance to the target does not grow, it
\* shrinks by the factor 0.97 (to within half a unit of the 1/10000
\* representation, which is what makes it tend to zero while the target is
\* held), and a scalar at or below the target stays at or below it (and one
\* at or above it stays at or above it).
C11_PressureApproachesTarget ==
    [][ isFrame(lastEvent') =>
          /\ Abs(tickTarget - pressureCurrent') <= Abs(tickTarget - pressureCurrent)
          /\ 100 * Abs(tickTarget - pressureCurrent')
                <= 97 * Abs(tickTarget - pressureCurrent) + 50
          /\ (pressureCurrent <= tickTarget => pressureCurrent' <= tickTarget)
          /\ (pressureCurrent >= tickTarget => pressureCurrent' >= tickTarget)
      ]_vars

\* The gauge has climbed from 0 to within the resolution of a target of
\* 0.25 that was held over many ticks.
C11_Witness ==
    /\ isFrame(lastEvent)
    /\ pressureTarget(currentScroll) = 2500
    /\ pressureCurrent > 2400
    /\ pressureCurrent <= 2500

\* C12: in every tick, also one whose target differs from the target of the
\* tick before, the pressure scalar changes by at most 0.03 times its
\* distance to the new target (to within half a unit of the 1/10000
\* representation), hence by at most 0.03.
C12_PressureNeverJumps ==
    [][ isFrame(lastEvent') =>
          /\ 100 * Abs(pressureCurrent' - pressureCurrent)
                <= 3 * Abs(tickTarget - pressureCurrent) + 50
          /\ Abs(pressureCurrent' - pressureCurrent) <= 300
      ]_vars

\* A tick taken after the section has left the viewport: the target fell
\* from 0.25 to 0 while the scalar was high, and the scalar is still high.
C12_Witness ==
    /\ isFrame(lastEvent)
    /\ ~inViewport("mariner-9", currentScroll)
    /\ layout = TallLayout
    /\ pressureCurrent > 2000

\* ---- page-load intro ----
introOrder == <<"header", "hero", "scrollCue">>
stagesShown == { introShown[i] : i \in 1..Len(introShown) }

\* C13: without the reduced-motion preference the stages become visible in
\* the order header, hero text, scroll cue (the stages shown so far are
\* always a prefix of that order, so none is shown before an earlier one
\* and none twice), and each stage's timer fires exactly once: after
\* initialization the pending timers are exactly the stages not yet shown,
\* and nothing sets a timer again.
C13_IntroStagesOnceInOrder ==
    ~prefersReducedMotion =>
        /\ Len(introShown) <= 3
        /\ \A i \in 1..Len(introShown) : introShown[i] = introOrder[i]
        /\ introTimers = IF pc = "ready" THEN IntroSteps \ stagesShown ELSE {}
        /\ ("intro-step-1" \in htmlClasses) = ("header" \in stagesShown)
        /\ ("intro-step-2" \in htmlClasses) = ("hero" \in stagesShown)

\* All three stages have run and frames still follow.
C13_Witness ==
    /\ ~prefersReducedMotion
    /\ introShown = introOrder
    /\ introTimers = {}
    /\ isFrame(lastEvent)

C15_LoopNeverStops ==
    /\ [](rafPending = IF pc = "ready" THEN 1 ELSE 0)
    /\ [][isFrame(lastEvent') => rafPending' = 1]_vars
    /\ []<>(pc = "ready" /\ isFrame(lastEvent) /\ frames = 0)
    /\ []<>(pc = "ready" /\ isFrame(lastEvent) /\ frames = 1)

\* A tick has run, a pointer move came after it, and one callback is
\* pending for the next tick.
C15_Witness ==
    /\ pc = "ready"
    /\ frames = 1
    /\ lastEvent.kind = "mousemove"
    /\ rafPending = 1

\* ---- edge filter: outcomes ----
\* C16: whatever was handled before, a request ends in one of the two
\* outcomes deny and forward, and which one is fixed by its own path and
\* user-agent; a request without a user-agent header is denied exactly when
\* its path ends with a blocked suffix, as is one with an empty user-agent.
C16_TwoOutcomesStateless ==
    [][ /\ response' \in {Denied, Forwarded}
        /\ request'.ua \in {NoHeader, UA_empty} =>
              ((response' = Denied) <=> suffixMatch')
        /\ (response' = Denied) <=> (suffixMatch' \/ botMatch')
      ]_vars

\* A request for an ordinary path without the header has been forwarded.
C16_Witness ==
    /\ request.ua = NoHeader
    /\ request.path = P_about
    /\ response = Forwarded

\* ---- section observer: the recorded identifier ----
reportedIntersecting(e) == e.kind = "product" /\ e.targets # {}

\* C17: after every step the recorded identifier and the body's
\* active-product metadata name the one section that carries the active
\* marker, and while no section carries it the identifier is null and the
\* metadata unset.  The identifier leaves null only in a callback that
\* reports a section as intersecting, every such callback leaves it naming
\* one of the sections it reported, and it never returns to null.  A
\* callback whose entries all report not intersecting changes neither the
\* marker nor the identifier nor the metadata.
C17_IdentifierNamesActiveSection ==
    [][ /\ IF isActive' = {}
           THEN activeProduct' = "null" /\ bodyActiveProduct' = ""
           ELSE isActive' = {activeProduct'} /\ bodyActiveProduct' = activeProduct'
        /\ (activeProduct = "null" /\ activeProduct' # "null")
              => reportedIntersecting(lastEvent')
        /\ reportedIntersecting(lastEvent') => activeProduct' \in lastEvent'.targets
        /\ activeProduct # "null" => activeProduct' # "null"
        /\ (lastEvent'.kind = "product" /\ lastEvent'.targets = {})
              => UNCHANGED <<isActive, activeProduct, bodyActiveProduct>>
      ]_vars

\* A callback without an intersecting entry arrived while mariner-9 was the
\* active section; stonewave had been active before (its parallax hint is
\* set).
C17_Witness ==
    /\ lastEvent.kind = "product"
    /\ lastEvent.targets = {}
    /\ isActive = {"mariner-9"}
    /\ activeProduct = "mariner-9"
    /\ parallax["stonewave"] # Unset

\* ---- parallax ----
\* C18: a frame tick leaves the parallax hints of every section without the
\* active marker as they were, and publishes hints for the section with the
\* marker (on a device with a pointer and without the reduced-motion
\* preference); every published hero offset lies in [-50, 50] px and every
\* media offset in [-80, 80] px, and where the hero offset is not clamped
\* the media offset is 1.5 times the hero offset.
C18_ParallaxActiveOnlyAndBounded ==
    [][ isFrame(lastEvent') =>
          \A s \in Sections :
              /\ s \notin isActive => parallax'[s] = parallax[s]
              /\ (s \in isActive /\ ~prefersReducedMotion /\ ~isTouch)
                    => parallax'[s] # Unset
              /\ parallax'[s] # Unset =>
                    /\ parallax'[s][1] >= -5000 /\ parallax'[s][1] <= 5000
                    /\ parallax'[s][2] >= -8000 /\ parallax'[s][2] <= 8000
                    /\ Abs(parallax'[s][1]) < 5000
                          => 2 * parallax'[s][2] = 3 * parallax'[s][1]
      ]_vars

\* Two ticks: stonewave was active near the viewport centre (offsets -24 and
\* -36 px, unclamped), then mariner-9 became active far below the centre and
\* got both offsets clamped, while stonewave kept its hints.
C18_Witness ==
    /\ isFrame(lastEvent)
    /\ isActive = {"mariner-9"}
    /\ parallax["stonewave"] = <<-2400, -3600>>
    /\ parallax["mariner-9"] = <<5000, 8000>>

\* ---- scroll progress without a scrollable distance ----
\* C19: on a document that is not taller than the viewport (the divisor
\* scrollHeight - innerHeight is zero or negative) the published
\* scroll-progress hint is a number in [0,1], for every scroll offset.
C19_ProgressDefinedWithoutScroll ==
    (layout.scrollHeight <= layout.innerHeight /\ isFrame(lastEvent)) =>
        /\ scrollProgress.k = "num"
        /\ scrollProgress.v \in 0..10000

\* ---- navigation drawer: the three indicators ----
\* C20: in every state reached from the closed menu by toggle activations,
\* link activations, key presses and focus changes, aria-expanded is true
\* exactly when the page carries nav-open, and exactly when the body's
\* overflow is "hidden".
C20_IndicatorsAgree ==
    /\ ariaExpanded <=> navOpen
    /\ ariaExpanded <=> (bodyOverflow = "hidden")
    /\ bodyOverflow \in {"", "hidden"}

\* Escape has just been handled and all three indicators say open.
C20_Witness ==
    /\ lastEvent.kind = "keyEscape"
    /\ ariaExpanded
    /\ navOpen
    /\ bodyOverflow = "hidden"
    /\ focusTimers = MaxPendingTimers

====
